---------------------------- MODULE Spec2Model ----------------------------
(***************************************************************************)
(* Model of marcaTexto (src/main.py): a FastAPI service whose /processar   *)
(* handler reads a source Google Doc, extracts the text written in pure    *)
(* red and asks the Docs service to highlight every occurrence of that     *)
(* text in a destination document.                                         *)
(*                                                                         *)
(* Conventions.  A Python str is a sequence of one-character strings.  An  *)
(* Optional[str] is a record [isNone, s].  A colour channel as returned by *)
(* dict.get is <<>> (key omitted, None) or <<v>> with v in ten-thousandths *)
(* (One = 1.0).  Three specifications share the variables:                 *)
(*   Spec           one /processar request (processar_documento)           *)
(*   SpecExtract    get_red_text applied to bounded documents              *)
(*   SpecHighlight  find_text_and_highlight applied repeatedly             *)
(***************************************************************************)
EXTENDS Integers, Sequences, FiniteSets, TLC

VARIABLES pc, token_info, constructed, creds, req, srcDoc,
          texto_para_destacar, text_to_find, dstDoc, origDoc, firstDoc,
          applied, calls, raised, outcome

vars == <<pc, token_info, constructed, creds, req, srcDoc,
          texto_para_destacar, text_to_find, dstDoc, origDoc, firstDoc,
          applied, calls, raised, outcome>>

---------------------------------------------------------------------------
(* Bounds of the model *)

MaxBlocks == 2
MaxElems == 2
MaxDocLen == 3
MaxTextLen == 2
MaxCalls == 2

(* The literal 1 of `color_info.get("red") == 1`, in ten-thousandths. *)
One == 10000

NL == "\n"

SeqsUpTo(S, n) == UNION {[1..k -> S] : k \in 0..n}

---------------------------------------------------------------------------
(* Python values *)

NoneVal == [isNone |-> TRUE, s |-> <<>>]
Some(s) == [isNone |-> FALSE, s |-> s]

(* `not x` for an Optional[str]: None and "" are both falsy. *)
FalsyOnlyEmpty(v) == ~v.isNone /\ v.s = <<>>
Falsy(v) == v.isNone \/ v.s = <<>>

(* Truthiness of a channel read with dict.get: None, 0 and 0.0 are falsy. *)
Truthy(ch) == ch # <<>> /\ ch[1] # 0

---------------------------------------------------------------------------
(* Documents as returned by documents().get: body.content is a list of     *)
(* structural elements; one with a "paragraph" key carries elements; an    *)
(* element may carry a textRun with content and an optional textStyle      *)
(* whose optional foregroundColor holds color.rgbColor.                    *)

Elem(hasTextRun, content, hasTextStyle, hasFg, r, g, b) ==
    [hasTextRun |-> hasTextRun, content |-> content,
     hasTextStyle |-> hasTextStyle, hasFg |-> hasFg,
     red |-> r, green |-> g, blue |-> b]

Colored(content) == Elem(TRUE, content, TRUE, TRUE, <<One>>, <<>>, <<>>)
Uncolored(content) == Elem(TRUE, content, TRUE, FALSE, <<>>, <<>>, <<>>)

Paragraph(elements) == [isParagraph |-> TRUE, elements |-> elements]
OtherBlock == [isParagraph |-> FALSE, elements |-> <<>>]

RunKinds == {Colored(<<"A", "B">>), Uncolored(<<"x">>),
             Colored(<<"C", "D">>), Colored(<<NL>>)}

Blocks == {Paragraph(e) : e \in SeqsUpTo(RunKinds, MaxElems)} \cup {OtherBlock}

Documents == SeqsUpTo(Blocks, MaxBlocks)

Channels == {<<>>, <<0>>, <<1>>, <<5000>>, <<One>>}

StyledRuns ==
    {Elem(FALSE, <<>>, FALSE, FALSE, <<>>, <<>>, <<>>),
     Elem(TRUE, <<"A", "B">>, FALSE, FALSE, <<>>, <<>>, <<>>),
     Elem(TRUE, <<"A", "B">>, TRUE, FALSE, <<>>, <<>>, <<>>)}
    \cup {Elem(TRUE, <<"A", "B">>, TRUE, TRUE, r, g, b) :
             r \in Channels, g \in Channels, b \in Channels}

SingleRunDocuments == {<<Paragraph(<<e>>)>> : e \in StyledRuns}

---------------------------------------------------------------------------
(* get_red_text *)

IsRedIgnoringBlue(e) ==
    /\ e.hasTextRun
    /\ e.hasTextStyle
    /\ e.hasFg
    /\ e.red = <<One>>
    /\ ~Truthy(e.green)

IsRed(e) ==
    /\ e.hasTextRun
    /\ e.hasTextStyle
    /\ e.hasFg
    /\ e.red = <<One>>
    /\ ~Truthy(e.green)
    /\ ~Truthy(e.blue)

PrependRun(acc, content) == content \o acc
AppendRun(acc, content) == acc \o content

RECURSIVE ScanElements(_, _, _)
ScanElements(elements, i, acc) ==
    IF i > Len(elements) THEN acc
    ELSE ScanElements(elements, i + 1,
                      IF IsRed(elements[i])
                      THEN AppendRun(acc, elements[i].content)
                      ELSE acc)

RECURSIVE ScanContent(_, _, _)
ScanContent(doc_content, i, acc) ==
    IF i > Len(doc_content) THEN acc
    ELSE ScanContent(doc_content, i + 1,
                     IF doc_content[i].isParagraph
                     THEN ScanElements(doc_content[i].elements, 1, acc)
                     ELSE acc)

StripNewlines(s) == SelectSeq(s, LAMBDA c : c # NL)

(* `texto_vermelho.replace('\n', '') if texto_vermelho else None`: the     *)
(* emptiness test is made on the accumulator before the newlines go.       *)
get_red_text(document) ==
    LET texto_vermelho == ScanContent(document, 1, <<>>)
    IN  IF texto_vermelho # <<>>
        THEN Some(StripNewlines(texto_vermelho))
        ELSE NoneVal

---------------------------------------------------------------------------
(* Remote calls, exceptions and outcomes *)

DocIds == {"docA", "docB"}
Msgs == {"m1", "m2"}

OkResult == [type |-> "ok", body |-> "", msg |-> ""]
NoExc == [type |-> "none", body |-> "", msg |-> ""]

(* creds.refresh raises RefreshError when the exchange fails. *)
RefreshResults ==
    {OkResult} \cup {[type |-> "RefreshError", body |-> "", msg |-> m] : m \in Msgs}

(* execute() raises HttpError, whose content is the response body (a JSON  *)
(* error object with or without a message, or not JSON at all), or some    *)
(* other exception.                                                        *)
ServiceResults ==
    {OkResult}
    \cup {[type |-> "HttpError", body |-> "json_msg", msg |-> m] : m \in Msgs}
    \cup {[type |-> "HttpError", body |-> "json_nomsg", msg |-> ""],
          [type |-> "HttpError", body |-> "not_json", msg |-> "m1"],
          [type |-> "Exception", body |-> "", msg |-> "m2"]}

Call(op, documentId, text, ok) ==
    [op |-> op, documentId |-> documentId, text |-> text, ok |-> ok]

NoOutcome == [status |-> 0, kind |-> "none", message |-> "", text |-> <<>>]
Unauthorized ==
    [status |-> 401, kind |-> "unauthorized", message |-> "", text |-> <<>>]
NoRedText ==
    [status |-> 200, kind |-> "no_red_text", message |-> "", text |-> <<>>]
Highlighted(t) ==
    [status |-> 200, kind |-> "highlighted", message |-> "", text |-> t]

(* The two except clauses of processar_documento.  json.loads(e.content)   *)
(* raises inside the first handler when the body is not JSON, and that     *)
(* exception leaves the handler: the framework answers a bare 500.         *)
HandleException(e) ==
    IF e.type = "HttpError"
    THEN IF e.body = "not_json"
         THEN [status |-> 500, kind |-> "unhandled", message |-> "",
               text |-> <<>>]
         ELSE [status |-> 400, kind |-> "google_api_error",
               message |-> IF e.body = "json_msg" THEN e.msg
                           ELSE "Erro desconhecido",
               text |-> <<>>]
    ELSE [status |-> 500, kind |-> "internal_error", message |-> e.msg,
          text |-> <<>>]

---------------------------------------------------------------------------
(* get_credentials_from_env *)

NoCreds == [token |-> FALSE, refresh_token |-> FALSE, expired |-> FALSE,
            built |-> FALSE]

Credentials(info, expired) ==
    [token |-> info.token, refresh_token |-> info.refresh_token,
     expired |-> expired, built |-> TRUE]

NeedsRefresh(c) == c.expired /\ c.refresh_token

RefreshNeverRaises(res) == FALSE
RefreshRaises(res) == res.type # "ok"

---------------------------------------------------------------------------
(* find_text_and_highlight and the service's replaceAllText *)

Yellow == "yellow"
NoStyle == "none"

BuildRequestIgnoringCase(text) ==
    [containsText |-> text, matchCase |-> FALSE, replaceText |-> text,
     style |-> Yellow]

BuildRequest(text) ==
    [containsText |-> text, matchCase |-> TRUE, replaceText |-> text,
     style |-> Yellow]

Lower(c) ==
    CASE c = "A" -> "a"
      [] c = "B" -> "b"
      [] c = "C" -> "c"
      [] c = "D" -> "d"
      [] OTHER -> c

MatchesAt(doc, i, r) ==
    LET n == Len(r.containsText)
    IN  /\ n > 0
        /\ i + n - 1 <= Len(doc)
        /\ \A k \in 1..n :
              IF r.matchCase
              THEN doc[i + k - 1].ch = r.containsText[k]
              ELSE Lower(doc[i + k - 1].ch) = Lower(r.containsText[k])

RECURSIVE ReplaceFrom(_, _, _, _)
ReplaceFrom(doc, i, r, out) ==
    IF i > Len(doc) THEN out
    ELSE IF MatchesAt(doc, i, r)
         THEN ReplaceFrom(doc, i + Len(r.containsText), r,
                          out \o [k \in 1..Len(r.replaceText) |->
                                     [ch |-> r.replaceText[k], hl |-> r.style]])
         ELSE ReplaceFrom(doc, i + 1, r, Append(out, doc[i]))

ReplaceAllText(doc, r) == ReplaceFrom(doc, 1, r, <<>>)

Text(doc) == [k \in 1..Len(doc) |-> doc[k].ch]
Plain(s) == [k \in 1..Len(s) |-> [ch |-> s[k], hl |-> NoStyle]]

DestChars == {"A", "a"}
DestDocs ==
    SeqsUpTo([ch : DestChars, hl : {NoStyle, Yellow}], MaxDocLen)
Texts == SeqsUpTo(DestChars, MaxTextLen)

RequestDestDocs ==
    {Plain(<<>>), Plain(<<"A", "B">>), Plain(<<"a", "b", "A", "B">>),
     Plain(<<"A", "B", "C", "D">>), Plain(<<"C", "D", "x", "C", "D">>)}

SourceDocs == {d \in Documents : Len(d) <= 1}

---------------------------------------------------------------------------
(* Spec: one request to /processar *)

TokenInfos == [token : BOOLEAN, refresh_token : BOOLEAN]
NoReq == [documento_fonte_id |-> "", documento_destino_id |-> ""]

ReadTargetDestino(r) == r.documento_destino_id
ReadTarget(r) == r.documento_fonte_id
WriteTarget(r) == r.documento_destino_id

Init ==
    /\ pc = "idle"
    /\ token_info \in TokenInfos
    /\ constructed = NoCreds
    /\ creds = NoCreds
    /\ req = NoReq
    /\ srcDoc \in SourceDocs
    /\ texto_para_destacar = NoneVal
    /\ text_to_find = <<>>
    /\ dstDoc \in RequestDestDocs
    /\ origDoc = dstDoc
    /\ firstDoc = dstDoc
    /\ applied = 0
    /\ calls = <<>>
    /\ raised = NoExc
    /\ outcome = NoOutcome

(* processar_documento, line 103-104: the API key check. *)
Receive ==
    /\ pc = "idle"
    /\ \E keyOk \in BOOLEAN, f \in DocIds, d \in DocIds :
          /\ req' = [documento_fonte_id |-> f, documento_destino_id |-> d]
          /\ IF keyOk
             THEN pc' = "try" /\ outcome' = outcome
             ELSE pc' = "done" /\ outcome' = Unauthorized
    /\ UNCHANGED <<token_info, constructed, creds, srcDoc,
                   texto_para_destacar, text_to_find, dstDoc, origDoc,
                   firstDoc, applied, calls, raised>>

(* creds = get_credentials_from_env(); service = build(...).  creds.expired *)
(* is the library's property of the constructed object.                    *)
GetCredentials ==
    /\ pc = "try"
    /\ \E expired \in BOOLEAN, res \in RefreshResults :
          LET c == Credentials(token_info, expired)
          IN  /\ constructed' = c
              /\ IF NeedsRefresh(c)
                 THEN /\ calls' = Append(calls,
                                 Call("refresh", "token_uri", <<>>, res.type = "ok"))
                      /\ IF RefreshRaises(res)
                         THEN /\ raised' = res
                              /\ outcome' = HandleException(res)
                              /\ pc' = "done"
                              /\ creds' = creds
                         ELSE /\ creds' = [c EXCEPT !.token = TRUE,
                                                    !.expired = FALSE]
                              /\ pc' = "creds"
                              /\ UNCHANGED <<raised, outcome>>
                 ELSE /\ creds' = c
                      /\ pc' = "creds"
                      /\ UNCHANGED <<calls, raised, outcome>>
    /\ UNCHANGED <<token_info, req, srcDoc, texto_para_destacar,
                   text_to_find, dstDoc, origDoc, firstDoc, applied>>

(* texto_para_destacar = get_red_text(service, req.documento_fonte_id) *)
GetRedText ==
    /\ pc = "creds"
    /\ \E res \in ServiceResults :
          /\ calls' = Append(calls,
                             Call("get", ReadTarget(req), <<>>, res.type = "ok"))
          /\ IF res.type = "ok"
             THEN /\ texto_para_destacar' = get_red_text(srcDoc)
                  /\ pc' = "extracted"
                  /\ UNCHANGED <<raised, outcome>>
             ELSE /\ raised' = res
                  /\ outcome' = HandleException(res)
                  /\ pc' = "done"
                  /\ UNCHANGED texto_para_destacar
    /\ UNCHANGED <<token_info, constructed, creds, req, srcDoc,
                   text_to_find, dstDoc, origDoc, firstDoc, applied>>

(* if not texto_para_destacar: return "Nenhum texto em vermelho ..." *)
ReturnNoRedText ==
    /\ pc = "extracted"
    /\ Falsy(texto_para_destacar)
    /\ outcome' = NoRedText
    /\ pc' = "done"
    /\ UNCHANGED <<token_info, constructed, creds, req, srcDoc,
                   texto_para_destacar, text_to_find, dstDoc, origDoc,
                   firstDoc, applied, calls, raised>>

(* find_text_and_highlight(service, req.documento_destino_id, texto) and    *)
(* the return that follows it.                                             *)
FindTextAndHighlight ==
    /\ pc = "extracted"
    /\ ~Falsy(texto_para_destacar)
    /\ text_to_find' = texto_para_destacar.s
    /\ \E res \in ServiceResults :
          LET r == BuildRequest(texto_para_destacar.s)
          IN  /\ calls' = Append(calls,
                         Call("batchUpdate", WriteTarget(req), r.containsText,
                              res.type = "ok"))
              /\ IF res.type = "ok"
                 THEN /\ dstDoc' = ReplaceAllText(dstDoc, r)
                      /\ applied' = applied + 1
                      /\ firstDoc' = dstDoc'
                      /\ outcome' = Highlighted(texto_para_destacar.s)
                      /\ UNCHANGED raised
                 ELSE /\ raised' = res
                      /\ outcome' = HandleException(res)
                      /\ UNCHANGED <<dstDoc, applied, firstDoc>>
    /\ pc' = "done"
    /\ UNCHANGED <<token_info, constructed, creds, req, srcDoc,
                   texto_para_destacar, origDoc>>

Next ==
    \/ Receive
    \/ GetCredentials
    \/ GetRedText
    \/ ReturnNoRedText
    \/ FindTextAndHighlight

Spec == Init /\ [][Next]_vars

---------------------------------------------------------------------------
(* SpecExtract: get_red_text(docs_service, document_id) on its own *)

InitExtract ==
    /\ pc = "extract"
    /\ token_info = [token |-> TRUE, refresh_token |-> TRUE]
    /\ constructed = NoCreds
    /\ creds = NoCreds
    /\ req = NoReq
    /\ srcDoc \in Documents \cup SingleRunDocuments
    /\ texto_para_destacar = NoneVal
    /\ text_to_find = <<>>
    /\ dstDoc = <<>>
    /\ origDoc = <<>>
    /\ firstDoc = <<>>
    /\ applied = 0
    /\ calls = <<>>
    /\ raised = NoExc
    /\ outcome = NoOutcome

GetRedTextCall ==
    /\ pc = "extract"
    /\ calls' = Append(calls, Call("get", "docA", <<>>, TRUE))
    /\ texto_para_destacar' = get_red_text(srcDoc)
    /\ pc' = "extracted"
    /\ UNCHANGED <<token_info, constructed, creds, req, srcDoc, text_to_find,
                   dstDoc, origDoc, firstDoc, applied, raised, outcome>>

NextExtract == GetRedTextCall

SpecExtract == InitExtract /\ [][NextExtract]_vars

---------------------------------------------------------------------------
(* SpecHighlight: find_text_and_highlight(docs_service, id, text) on its    *)
(* own, called up to MaxCalls times with the same text.                    *)

InitHighlight ==
    /\ pc = "highlight"
    /\ token_info = [token |-> TRUE, refresh_token |-> TRUE]
    /\ constructed = NoCreds
    /\ creds = NoCreds
    /\ req = NoReq
    /\ srcDoc = <<>>
    /\ texto_para_destacar = NoneVal
    /\ text_to_find \in Texts
    /\ dstDoc \in DestDocs
    /\ origDoc = dstDoc
    /\ firstDoc = dstDoc
    /\ applied = 0
    /\ calls = <<>>
    /\ raised = NoExc
    /\ outcome = NoOutcome

HighlightResults ==
    {OkResult, [type |-> "HttpError", body |-> "json_msg", msg |-> "m1"]}

FindTextAndHighlightCall ==
    /\ pc = "highlight"
    /\ Len(calls) < MaxCalls
    /\ \E res \in HighlightResults :
          LET r == BuildRequest(text_to_find)
          IN  /\ calls' = Append(calls,
                         Call("batchUpdate", "docB", r.containsText,
                              res.type = "ok"))
              /\ IF res.type = "ok"
                 THEN /\ dstDoc' = ReplaceAllText(dstDoc, r)
                      /\ applied' = applied + 1
                      /\ firstDoc' = IF applied = 0 THEN dstDoc' ELSE firstDoc
                      /\ UNCHANGED <<raised, pc>>
                 ELSE /\ raised' = res
                      /\ pc' = "raised"
                      /\ UNCHANGED <<dstDoc, applied, firstDoc>>
    /\ UNCHANGED <<token_info, constructed, creds, req, srcDoc,
                   texto_para_destacar, text_to_find, origDoc, outcome>>

NextHighlight == FindTextAndHighlightCall

SpecHighlight == InitHighlight /\ [][NextHighlight]_vars

---------------------------------------------------------------------------
(* Vocabulary of the properties, stated independently of the scan above *)

RECURSIVE RunsOf(_)
RunsOf(document) ==
    IF document = <<>> THEN <<>>
    ELSE (IF Head(document).isParagraph THEN Head(document).elements ELSE <<>>)
         \o RunsOf(Tail(document))

(* The colour predicate as the specification words it: a text run with a   *)
(* foreground colour whose triple is (1, 0, 0), an omitted green or blue   *)
(* counting as 0.                                                          *)
ChannelOrZero(ch) == IF ch = <<>> THEN 0 ELSE ch[1]

MatchesPureRed(e) ==
    /\ e.hasTextRun /\ e.hasTextStyle /\ e.hasFg
    /\ e.red # <<>> /\ e.red[1] = One
    /\ ChannelOrZero(e.green) = 0
    /\ ChannelOrZero(e.blue) = 0

MatchingRuns(document) == SelectSeq(RunsOf(document), MatchesPureRed)

RECURSIVE ConcatContents(_)
ConcatContents(runs) ==
    IF runs = <<>> THEN <<>> ELSE Head(runs).content \o ConcatContents(Tail(runs))

RECURSIVE WithoutNewlines(_)
WithoutNewlines(s) ==
    IF s = <<>> THEN <<>>
    ELSE IF Head(s) = NL THEN WithoutNewlines(Tail(s))
         ELSE <<Head(s)>> \o WithoutNewlines(Tail(s))

CallsOf(op) == {i \in DOMAIN calls : calls[i].op = op}
SourceWasRead == \E i \in CallsOf("get") : calls[i].ok
RefreshFailed == \E i \in CallsOf("refresh") : ~calls[i].ok
FirstFailure == {i \in DOMAIN calls : ~calls[i].ok /\ \A j \in 1..(i - 1) : calls[j].ok}
Rank(op) == CASE op = "refresh" -> 1 [] op = "get" -> 2 [] op = "batchUpdate" -> 3

---------------------------------------------------------------------------
(* C1: when the source document that was read holds no run matching the    *)
(* pure-red predicate, the request ends in the successful "no red text"    *)
(* outcome and batchUpdate is never called during the request.             *)
C1_NoRedTextIsNoOp ==
    (SourceWasRead /\ MatchingRuns(srcDoc) = <<>>) =>
        /\ CallsOf("batchUpdate") = {}
        /\ applied = 0
        /\ pc = "done" => outcome = NoRedText

C1_Witness ==
    /\ pc = "done"
    /\ SourceWasRead
    /\ RunsOf(srcDoc) # <<>>
    /\ MatchingRuns(srcDoc) = <<>>
    /\ outcome = NoRedText

(* C2: the remote operations of a request occur in the order refresh,      *)
(* read, write, each after the one before succeeded: the read only after   *)
(* get_credentials_from_env returned, against documento_fonte_id; the      *)
(* write only after a successful read that gave a non-empty span, against  *)
(* documento_destino_id, with exactly the extracted span as match text.    *)
C2_FixedOrder ==
    /\ \A i \in DOMAIN calls : \A j \in DOMAIN calls :
          i < j => (Rank(calls[i].op) < Rank(calls[j].op) /\ calls[i].ok)
    /\ \A i \in CallsOf("get") :
          /\ creds.built
          /\ calls[i].documentId = req.documento_fonte_id
    /\ \A i \in CallsOf("batchUpdate") :
          /\ \E j \in CallsOf("get") : j < i /\ calls[j].ok
          /\ calls[i].documentId = req.documento_destino_id
          /\ ~texto_para_destacar.isNone
          /\ texto_para_destacar.s # <<>>
          /\ texto_para_destacar = get_red_text(srcDoc)
          /\ calls[i].text = texto_para_destacar.s

C2_Witness ==
    /\ Len(calls) = 3
    /\ calls[1].op = "refresh" /\ calls[2].op = "get"
    /\ calls[3].op = "batchUpdate" /\ calls[3].ok
    /\ calls[3].text = <<"A", "B", "C", "D">>
    /\ req.documento_fonte_id # req.documento_destino_id
    /\ dstDoc # origDoc

(* C3: when the refresh exchange of get_credentials_from_env fails, the    *)
(* request ends in a failure outcome caused by the refresh error and       *)
(* carrying its message, and the source document is never read.            *)
C3_RefreshFailureStopsRequest ==
    RefreshFailed =>
        /\ pc = "done"
        /\ raised.type = "RefreshError"
        /\ outcome.status = 500
        /\ outcome.kind = "internal_error"
        /\ outcome.message = raised.msg
        /\ CallsOf("get") = {}
        /\ CallsOf("batchUpdate") = {}

C3_Witness ==
    /\ RefreshFailed
    /\ pc = "done"
    /\ outcome.message = "m2"
    /\ Len(calls) = 1

(* C4: get_credentials_from_env calls the token endpoint once when the     *)
(* supplied access token is absent or expired and a refresh token is       *)
(* present, and never when the supplied access token is still valid.       *)
C4_RefreshWhenAbsentOrExpired ==
    constructed.built =>
        /\ ((~constructed.token \/ constructed.expired) /\ constructed.refresh_token)
              => Cardinality(CallsOf("refresh")) = 1
        /\ (constructed.token /\ ~constructed.expired)
              => CallsOf("refresh") = {}

(* The half of C4 the code keeps: no token-endpoint call for a credential  *)
(* that is not expired, and one for an expired one with a refresh token.   *)
C4_RefreshOnlyWhenExpired ==
    constructed.built =>
        Cardinality(CallsOf("refresh")) =
            (IF constructed.expired /\ constructed.refresh_token THEN 1 ELSE 0)

(* C5: the span get_red_text returns is the concatenation, in document     *)
(* order, of the content of exactly the runs matching the colour           *)
(* predicate, with every newline removed; absent is returned only when     *)
(* that concatenation holds nothing.                                       *)
C5_SpanIsOrderedConcatenation ==
    pc = "extracted" =>
        LET joined == ConcatContents(MatchingRuns(srcDoc))
        IN  IF texto_para_destacar.isNone
            THEN joined = <<>>
            ELSE texto_para_destacar.s = WithoutNewlines(joined)

C5_Witness ==
    /\ pc = "extracted"
    /\ srcDoc = <<Paragraph(<<Colored(<<"A", "B">>), Uncolored(<<"x">>)>>),
                  Paragraph(<<Colored(<<"C", "D">>)>>)>>
    /\ texto_para_destacar = Some(<<"A", "B", "C", "D">>)

(* C6: a run is taken by get_red_text if and only if it has a foreground   *)
(* colour whose triple is exactly (1, 0, 0), an omitted green or blue      *)
(* counting as 0; a run without foreground colour is never taken.          *)
C6_ExactPureRed ==
    (pc = "extracted" /\ srcDoc \in SingleRunDocuments) =>
        (texto_para_destacar = Some(<<"A", "B">>)
            <=> MatchesPureRed(srcDoc[1].elements[1]))
        /\ (texto_para_destacar.isNone
            <=> ~MatchesPureRed(srcDoc[1].elements[1]))

C6_Witness ==
    /\ pc = "extracted"
    /\ srcDoc = <<Paragraph(<<Elem(TRUE, <<"A", "B">>, TRUE, TRUE,
                                   <<One>>, <<1>>, <<0>>)>>)>>
    /\ texto_para_destacar.isNone

C6_WitnessRed ==
    /\ pc = "extracted"
    /\ srcDoc = <<Paragraph(<<Elem(TRUE, <<"A", "B">>, TRUE, TRUE,
                                   <<One>>, <<0>>, <<>>)>>)>>
    /\ texto_para_destacar = Some(<<"A", "B">>)

(* C7: find_text_and_highlight called with empty text fails with           *)
(* EmptyMatchTextError and issues no batchUpdate.                          *)
C7_EmptyTextIssuesNoCall ==
    (text_to_find = <<>> /\ (calls # <<>> \/ pc = "raised")) =>
        /\ raised.type = "EmptyMatchTextError"
        /\ CallsOf("batchUpdate") = {}

(* C8: propagation is idempotent: a second successful application of       *)
(* find_text_and_highlight with the same non-empty text leaves the         *)
(* document (characters and per-character highlight) as the first left it, *)
(* and no application changes the characters.                              *)
C8_PropagationIdempotent ==
    (text_to_find # <<>> /\ applied >= 1) =>
        /\ Text(dstDoc) = Text(origDoc)
        /\ dstDoc = firstDoc

C8_Witness ==
    /\ text_to_find # <<>>
    /\ applied = 2
    /\ dstDoc # origDoc
    /\ \E k \in DOMAIN dstDoc : dstDoc[k].hl = NoStyle

(* C9: no step is retried: each of refresh, read and write is issued at    *)
(* most once, no remote call follows the first failure, and the request    *)
(* then ends in a failed outcome carrying that first error's message.      *)
C9_NoRetryFirstFailureTerminal ==
    /\ \A op \in {"refresh", "get", "batchUpdate"} : Cardinality(CallsOf(op)) <= 1
    /\ \A i \in FirstFailure :
          /\ i = Len(calls)
          /\ pc = "done"
          /\ outcome.status >= 400
          /\ raised.msg # "" => outcome.message = raised.msg

(* The part of C9 about retries alone. *)
C9_NoRetry ==
    /\ \A op \in {"refresh", "get", "batchUpdate"} : Cardinality(CallsOf(op)) <= 1
    /\ \A i \in FirstFailure :
          i = Len(calls) /\ pc = "done" /\ outcome.status >= 400

(* C10: get_red_text returns absent or a non-empty string without newline; *)
(* matching runs holding only newlines give absent, never "".              *)
C10_AbsentOrNonEmpty ==
    pc = "extracted" =>
        \/ texto_para_destacar.isNone
        \/ /\ texto_para_destacar.s # <<>>
           /\ \A k \in DOMAIN texto_para_destacar.s : texto_para_destacar.s[k] # NL

(* What the code keeps of C10: the result never holds a newline. *)
C10_NoNewlineInResult ==
    pc = "extracted" =>
        \A k \in DOMAIN texto_para_destacar.s : texto_para_destacar.s[k] # NL

===========================================================================
